---- MODULE Spec2Model ----
(***************************************************************************)
(* A model of lsst.obs.base.gen2to3: CalibRepoConverter._finish, the       *)
(* reconciliation of Gen2 calibration validity ranges                      *)
(* (python/lsst/obs/base/gen2to3/calibRepoConverter.py).                   *)
(*                                                                         *)
(* Times are integers counting thousandths of a day, so that the           *)
(* comparison threshold fuzzy_day = 1.001 days is the integer 1001 and     *)
(* "validEnd plus one day" is validEnd + 1000.                             *)
(***************************************************************************)
EXTENDS Integers, Sequences, FiniteSets, TLC

VARIABLES
    datasets,                \* the refs handed to _finish (one per datasetType, calibDate, dataId)
    registry,                \* calibRegistry.sqlite3: table name -> set of rows
    calibFileExists,         \* os.path.exists(calibFile)
    dbConnected,             \* sqlite3.connect(calibFile) has been called
    mapperTables,            \* mapper.mappings[name].tables
    pc,                      \* position inside _finish
    exception,               \* the exception that left _finish, or "None"
    pendingTypes,            \* dataset types the outer loop has not reached
    curType,                 \* dataset type whose calibDates are being processed
    pendingDates,            \* calibDates of curType not yet queried
    queries,                 \* sequence of (datasetType, calibDate) queries executed
    refsByTimespan,          \* dict: Timespan -> list of refs
    timespansByDataId,       \* dict (insertion ordered): (dataId, name) -> list of (timespan, ref)
    groupsDone,              \* number of groups the correction loop has processed
    correctedRefsByTimespan, \* dict (insertion ordered): Timespan -> list of refs
    info_messages,           \* set of gap messages
    warn_messages,           \* set of overlap messages
    log,                     \* sequence of log records emitted by task.log
    certified                \* sequence of registry.certify calls

\* DirectoryScanner (python/lsst/obs/base/gen2to3/repoWalker/scanner.py)
VARIABLES
    files,                   \* self._files: the handlers for files, sorted by rank
    subdirectories,          \* self._subdirectories: the handlers for directories
    unadded,                 \* handlers that the caller has yet to add
    added,                   \* the handlers passed to add, in the order of the calls
    scandir,                 \* entries of the directory that os.scandir has yet to yield
    yielded,                 \* entries that os.scandir has yielded, in order
    handlerCalls,            \* sequence of handler invocations made by scan
    accumulated,             \* the datasets accumulator, as the sequence of its mutations
    unrecognized,            \* the list of unrecognized entry names
    scannerLog,              \* sequence of records emitted by self.log
    scannerPc                \* position of the scanner's caller

\* FilterDefinitionCollection, as exercised by tests/test_filters.py
VARIABLES
    defined,                 \* FilterDefinitionCollection._defined: a collection, or "None"
    afwFilters,              \* the filters known to lsst.afw.image.Filter
    filterCalls              \* sequence of calls made on the collections, with their outcome

finishVars == <<datasets, registry, calibFileExists, dbConnected, mapperTables, pc, exception,
                pendingTypes, curType, pendingDates, queries, refsByTimespan,
                timespansByDataId, groupsDone, correctedRefsByTimespan,
                info_messages, warn_messages, log, certified>>

scannerVars == <<files, subdirectories, unadded, added, scandir, yielded, handlerCalls, accumulated,
                 unrecognized,
                 scannerLog, scannerPc>>

filterVars == <<defined, afwFilters, filterCalls>>

vars == <<finishVars, scannerVars, filterVars>>

inputs == <<datasets, registry, calibFileExists, mapperTables>>

-----------------------------------------------------------------------------
(* Values *)

\* astropy.time.TimeDelta(1, format="jd"): one day
day == 1000
\* astropy.time.TimeDelta(1.001, format="jd"): a day with a bit of fuzz
fuzzy_day == 1001

NoType == "NoType"
NoDate == "None"

Abs(x) == IF x < 0 THEN 0 - x ELSE x

\* lsst.daf.butler.Timespan: a named tuple (begin, end)
Timespan(b, e) == [begin |-> b, end |-> e]

\* Mutant of TimespanLess: the end is compared before the begin
TimespanLessByEnd(s, t) == \/ s.end < t.end
                           \/ s.end = t.end /\ s.begin < t.begin

\* Tuple comparison of two Timespans, as used by sorted()
TimespanLess(s, t) == \/ s.begin < t.begin
                      \/ s.begin = t.begin /\ s.end < t.end

\* The dataset types of the repository under conversion
DatasetTypeNames == {"bias", "flat", "raw"}

\* datasetType.isCalibration()
IsCalibration(name) == name \in {"bias", "flat"}

\* datasetType.dimensions.names (the instrument dimension is left implicit)
Dimensions(name) == IF name = "flat" THEN {"detector", "physical_filter"}
                                     ELSE {"detector"}

\* The columns of a Gen2 data ID for a dataset type: config.ccdKey and "filter"
Gen2Keys(name) == {k \in {"ccd", "filter"} :
                      \/ k = "ccd" /\ "detector" \in Dimensions(name)
                      \/ k = "filter" /\ "physical_filter" \in Dimensions(name)}

\* The Gen3 dimension a Gen2 key is translated to, and back
Gen3Name(k) == IF k = "ccd" THEN "detector" ELSE "physical_filter"
Gen2Name(d) == IF d = "detector" THEN "ccd" ELSE "filter"

\* translator(gen2id) followed by DataCoordinate.standardize
Translate(gen2id) ==
    [d \in {Gen3Name(k) : k \in DOMAIN gen2id} |-> gen2id[Gen2Name(d)]]

-----------------------------------------------------------------------------
(* _queryGen2CalibRegistry *)

\* tables is None or len(tables) == 0
NoTables(name) == mapperTables[name].none \/ Len(mapperTables[name].names) = 0

\* One row of SELECT DISTINCT validStart, validEnd, <ccd>, <filter>; a column
\* selected as NULL is never read by _finish and is left out of the row.
ProjectRow(name, row) ==
    [k \in {"validStart", "validEnd"} \cup Gen2Keys(name) |-> row[k]]

\* db.execute(query, (calibDate,)) on an existing table
SelectDistinct(name, calibDate) ==
    LET table == mapperTables[name].names[1]
    IN  {ProjectRow(name, row) : row \in {r \in registry[table] : r.calibDate = calibDate}}

\* The query raises sqlite3.OperationalError (no such table)
QueryFails(name) == mapperTables[name].names[1] \notin DOMAIN registry

\* log.warn("Could not extract calibration ranges for %s in %s from table %s: %r")
QueryWarning(name, calibDate) ==
    [level |-> "warn", msg |-> [kind |-> "query failed", datasetType |-> name,
                                calibDate |-> calibDate]]

\* The rows the generator yields: none after a caught OperationalError
QueryRows(name, calibDate) ==
    IF QueryFails(name) THEN {} ELSE SelectDistinct(name, calibDate)

-----------------------------------------------------------------------------
(* The join of rows to discovered refs: lines 155-191 *)

\* Mutant of RowTimespan: validEnd is taken as an exclusive end
RowTimespanExclusive(row) == Timespan(row.validStart, row.validEnd)

\* Timespan(Time(validStart), Time(validEnd) + day)
RowTimespan(row) == Timespan(row.validStart, row.validEnd + day)

\* gen2id built from the row
Gen2Id(name, row) == [k \in Gen2Keys(name) |-> row[k]]

\* Mutant of RefsByDataId: the refs of every calibDate of the dataset type
RefsByDataIdAnyDate(name, calibDate) ==
    {r \in datasets : r.datasetType = name}

\* refsByDataId for one dataset type and calibDate
RefsByDataId(name, calibDate) ==
    {r \in datasets : r.datasetType = name /\ r.calibDate = calibDate}

\* refsByDataId.get(dataId): the set holding the ref, or the empty set for None
LookupRef(name, calibDate, dataId) ==
    {r \in RefsByDataId(name, calibDate) : r.dataId = dataId}

\* defaultdict(list)[key].append(value) on a dict kept as a function
DictAppend(d, key, value) ==
    IF key \in DOMAIN d
    THEN [d EXCEPT ![key] = Append(@, value)]
    ELSE [k \in DOMAIN d \cup {key} |-> IF k = key THEN <<value>> ELSE d[k]]

\* The body of "for row in ..." for one row: st is [refs, log]
JoinRow(st, name, calibDate, row) ==
    LET dataId == Translate(Gen2Id(name, row))
        found  == LookupRef(name, calibDate, dataId)
    IN  IF found # {}
        THEN [refs |-> DictAppend(st.refs, RowTimespan(row), CHOOSE r \in found : TRUE),
              log  |-> st.log]
        ELSE [refs |-> st.refs,
              log  |-> Append(st.log, [level |-> "debug",
                                       msg |-> [kind |-> "no dataset", datasetType |-> name,
                                                calibDate |-> calibDate, dataId |-> dataId]])]

RECURSIVE JoinRows(_, _, _, _)
JoinRows(st, name, calibDate, rows) ==
    IF rows = <<>> THEN st
    ELSE JoinRows(JoinRow(st, name, calibDate, Head(rows)), name, calibDate, Tail(rows))

\* The orders in which the cursor may yield a result set
Orderings(S) ==
    {s \in [1..Cardinality(S) -> S] : \A i, j \in 1..Cardinality(S) : i # j => s[i] # s[j]}

-----------------------------------------------------------------------------
(* Regrouping by (dataId, dataset type name): lines 196-201 *)

RECURSIVE SortedTimespans(_)
\* sorted(refsByTimespan)
SortedTimespans(S) ==
    IF S = {} THEN <<>>
    ELSE LET m == CHOOSE x \in S : \A y \in S : ~TimespanLess(y, x)
         IN  <<m>> \o SortedTimespans(S \ {m})

\* The position of a key in an insertion-ordered dict kept as a sequence, or 0
KeyIndex(d, key) ==
    IF \E i \in 1..Len(d) : d[i].key = key
    THEN CHOOSE i \in 1..Len(d) : d[i].key = key
    ELSE 0

\* Mutant of OrderedAppend: the value replaces the list of an existing key
OrderedAppendOverwrites(d, key, value) ==
    LET i == KeyIndex(d, key)
    IN  IF i = 0 THEN Append(d, [key |-> key, values |-> <<value>>])
        ELSE [d EXCEPT ![i].values = <<value>>]

\* Mutant of OrderedAppend: every value gets an entry of its own
OrderedAppendAlwaysNew(d, key, value) ==
    Append(d, [key |-> key, values |-> <<value>>])

\* defaultdict(list)[key].append(value) on an insertion-ordered dict
OrderedAppend(d, key, value) ==
    LET i == KeyIndex(d, key)
    IN  IF i = 0 THEN Append(d, [key |-> key, values |-> <<value>>])
        ELSE [d EXCEPT ![i].values = Append(@, value)]

\* Mutant of GroupKey: the refs are grouped by dataset type name alone
GroupKeyByName(r) == [dataId |-> <<>>, name |-> r.datasetType]

\* The key of a ref's group: (r.dataId, r.datasetType.name)
GroupKey(r) == [dataId |-> r.dataId, name |-> r.datasetType]

RECURSIVE GroupRefs(_, _, _)
\* The inner loop "for r in refsByTimespan[timespan]"
GroupRefs(d, timespan, refs) ==
    IF refs = <<>> THEN d
    ELSE GroupRefs(OrderedAppend(d, GroupKey(Head(refs)),
                                 [timespan |-> timespan, ref |-> Head(refs)]),
                   timespan, Tail(refs))

RECURSIVE GroupTimespans(_, _, _)
\* The loop "for timespan in sorted(refsByTimespan)"
GroupTimespans(d, byTimespan, order) ==
    IF order = <<>> THEN d
    ELSE GroupTimespans(GroupRefs(d, Head(order), byTimespan[Head(order)]),
                        byTimespan, Tail(order))

\* timespansByDataId as built from refsByTimespan
Regrouped(byTimespan) ==
    GroupTimespans(<<>>, byTimespan, SortedTimespans(DOMAIN byTimespan))

-----------------------------------------------------------------------------
(* The correction loop for one group: lines 217-248 *)

\* Mutant of InsertPair: the pairs are kept in descending order
InsertPairDescending(p, s) ==
    LET k == Cardinality({i \in 1..Len(s) : ~TimespanLess(s[i].timespan, p.timespan)})
    IN  SubSeq(s, 1, k) \o <<p>> \o SubSeq(s, k + 1, Len(s))

\* Insert a pair after every pair whose timespan is not greater (stable)
InsertPair(p, s) ==
    LET k == Cardinality({i \in 1..Len(s) : ~TimespanLess(p.timespan, s[i].timespan)})
    IN  SubSeq(s, 1, k) \o <<p>> \o SubSeq(s, k + 1, Len(s))

RECURSIVE SortPairs(_)
\* sorted(timespans, key=lambda x: x[0])
SortPairs(s) ==
    IF s = <<>> THEN <<>>
    ELSE InsertPair(s[Len(s)], SortPairs(SubSeq(s, 1, Len(s) - 1)))

\* "Calibration validity gap closed for {timespan_prev.end} to {timespan.begin}"
GapMessage(prev, cur) == [kind |-> "gap", from |-> prev.end, to |-> cur.begin]

\* "Calibration validity overlap of {abs(delta)} removed for period
\*  {timespan.begin} to {timespan_prev.end}"
OverlapMessage(prev, cur) ==
    [kind |-> "overlap", duration |-> Abs(cur.begin - prev.end),
     from |-> cur.begin, to |-> prev.end]

\* Mutant of Suspicious: only gaps are suspicious, overlaps are left alone
SuspiciousGapOnly(delta) == 0 < delta /\ delta < fuzzy_day

\* Mutant of Suspicious: timespans that abut exactly are not suspicious
SuspiciousNonzero(delta) == delta # 0 /\ Abs(delta) < fuzzy_day

\* Mutant of Suspicious: a difference equal to the threshold is suspicious too
SuspiciousInclusive(delta) == Abs(delta) <= fuzzy_day

\* abs(delta) < fuzzy_day
Suspicious(delta) == Abs(delta) < fuzzy_day

\* Mutant of Adjusted: the previous timespan is stretched to the end of the current one
AdjustedToEnd(prev, cur) == Timespan(prev.begin, cur.end)

\* Timespan(begin=timespan_prev.begin, end=timespan.begin)
Adjusted(prev, cur) == Timespan(prev.begin, cur.begin)

\* Mutant of CorrectStep: validEnd is trusted, the begin of the current
\* timespan is moved to the end of the previous one
CorrectStepTrustsEnd(st, cur) ==
    LET delta == cur.timespan.begin - st.prev.end
    IN  [prev  |-> IF Suspicious(delta) THEN Timespan(st.prev.end, cur.timespan.end)
                   ELSE cur.timespan,
         ref   |-> cur.ref,
         pairs |-> Append(st.pairs, [timespan |-> st.prev, ref |-> st.ref]),
         info  |-> IF Suspicious(delta) /\ delta > 0
                   THEN st.info \cup {GapMessage(st.prev, cur.timespan)} ELSE st.info,
         warn  |-> IF Suspicious(delta) /\ ~(delta > 0)
                   THEN st.warn \cup {OverlapMessage(st.prev, cur.timespan)} ELSE st.warn]

\* One iteration of "for timespan, ref in sorted_timespans".
\* st is [prev, ref, pairs, info, warn]; pairs are the (timespan, ref)
\* appended to correctedRefsByTimespan so far, in order.
CorrectStep(st, cur) ==
    LET delta == cur.timespan.begin - st.prev.end
        prev2 == IF Suspicious(delta) THEN Adjusted(st.prev, cur.timespan) ELSE st.prev
    IN  [prev  |-> cur.timespan,
         ref   |-> cur.ref,
         pairs |-> Append(st.pairs, [timespan |-> prev2, ref |-> st.ref]),
         info  |-> IF Suspicious(delta) /\ delta > 0
                   THEN st.info \cup {GapMessage(st.prev, cur.timespan)} ELSE st.info,
         warn  |-> IF Suspicious(delta) /\ ~(delta > 0)
                   THEN st.warn \cup {OverlapMessage(st.prev, cur.timespan)} ELSE st.warn]

RECURSIVE CorrectLoop(_, _)
CorrectLoop(st, rest) ==
    IF rest = <<>> THEN st
    ELSE CorrectLoop(CorrectStep(st, Head(rest)), Tail(rest))

\* Mutant of GroupCorrection: the final timespan/ref pair is not stored
GroupCorrectionDropsLast(timespans) ==
    LET sorted_timespans == SortPairs(timespans)
        first == Head(sorted_timespans)
        st == CorrectLoop([prev |-> first.timespan, ref |-> first.ref, pairs |-> <<>>,
                           info |-> {}, warn |-> {}],
                          Tail(sorted_timespans))
    IN  [pairs |-> st.pairs, info |-> st.info, warn |-> st.warn]

\* The body of "for timespans in timespansByDataId.values()" for one group:
\* the pairs appended to correctedRefsByTimespan and the messages added.
GroupCorrection(timespans) ==
    LET sorted_timespans == SortPairs(timespans)
        first == Head(sorted_timespans)
        st == CorrectLoop([prev |-> first.timespan, ref |-> first.ref, pairs |-> <<>>,
                           info |-> {}, warn |-> {}],
                          Tail(sorted_timespans))
    IN  [pairs |-> Append(st.pairs, [timespan |-> st.prev, ref |-> st.ref]),
         info  |-> st.info,
         warn  |-> st.warn]

RECURSIVE StoreCorrected(_, _)
\* correctedRefsByTimespan[timespan].append(ref) for each pair in order
StoreCorrected(d, pairs) ==
    IF pairs = <<>> THEN d
    ELSE StoreCorrected(OrderedAppend(d, Head(pairs).timespan, Head(pairs).ref), Tail(pairs))

-----------------------------------------------------------------------------
(* Reporting: lines 250-253 *)

RECURSIVE Digits(_)
\* The decimal digits of a natural number, as str() writes them
Digits(n) == IF n < 10 THEN <<n>> ELSE Digits(n \div 10) \o <<n % 10>>

\* str(abs(delta).to(u.s)) up to the unit: a duration counted in thousandths
\* of a day is 86.4 times as many seconds, written with one decimal; the
\* point is written -1, as it sorts before every digit
DurationText(d) == Digits((864 * d) \div 10) \o <<0 - 1, (864 * d) % 10>>

\* The part of a message text that differs between two messages of one kind.
\* The times are ISO strings of one width, so each compares as one symbol and
\* in the order of time.
Text(m) ==
    IF m.kind = "gap" THEN <<m.from, m.to>>
    ELSE DurationText(m.duration) \o <<m.from, m.to>>

RECURSIVE LexLess(_, _)
\* str.__lt__: the order of two texts is decided at the first place they differ
LexLess(s, t) ==
    IF s = <<>> THEN t # <<>>
    ELSE IF t = <<>> THEN FALSE
    ELSE IF Head(s) # Head(t) THEN Head(s) < Head(t)
    ELSE LexLess(Tail(s), Tail(t))

\* Mutant of MessageLess: the messages are ordered by the period they name
MessageLessByPeriod(m, n) ==
    \/ m.from < n.from
    \/ m.from = n.from /\ m.to < n.to

\* The order of the message texts under sorted()
MessageLess(m, n) == LexLess(Text(m), Text(n))

\* Mutant of Logged: nothing counts as logged
LoggedNothing(level) == {}

\* The messages of a set that a level has logged already
Logged(level) == {log[i].msg : i \in {j \in 1..Len(log) : log[j].level = level}}

\* The next message of sorted(messages) to log
NextMessage(messages, level) ==
    CHOOSE m \in messages \ Logged(level) :
        \A n \in messages \ Logged(level) : ~MessageLess(n, m)

\* The loop that _finish enters next, given what is left to do
Phase(groupsLeft, infoLeft, warnLeft, certifyLeft) ==
    IF groupsLeft > 0 THEN "correct"
    ELSE IF infoLeft # {} THEN "info"
    ELSE IF warnLeft # {} THEN "warn"
    ELSE IF certifyLeft > 0 THEN "certify"
    ELSE "done"

-----------------------------------------------------------------------------
(* _finish, step by step *)

\* Mutant of CheckRegistry: the registry file is not checked
CheckRegistryUnchecked ==
    /\ pc = "start"
    /\ pc' = "scan"
    /\ exception' = "None"
    /\ dbConnected' = TRUE
    /\ UNCHANGED <<scannerVars, filterVars, inputs, pendingTypes, curType, pendingDates, queries, refsByTimespan,
                   timespansByDataId, groupsDone, correctedRefsByTimespan,
                   info_messages, warn_messages, log, certified>>

\* Lines 121-134: the registry file must exist
CheckRegistry ==
    /\ pc = "start"
    /\ pc' = IF calibFileExists THEN "scan" ELSE "raised"
    /\ exception' = IF calibFileExists THEN "None" ELSE "RuntimeError"
    /\ dbConnected' = calibFileExists
    /\ UNCHANGED <<scannerVars, filterVars, inputs, pendingTypes, curType, pendingDates, queries, refsByTimespan,
                   timespansByDataId, groupsDone, correctedRefsByTimespan,
                   info_messages, warn_messages, log, certified>>

\* The calibDates under which refs of a dataset type were discovered
CalibDatesOf(name) == {r.calibDate : r \in {x \in datasets : x.datasetType = name}}

\* Lines 135-147: the outer loop reaches the next dataset type
NextDatasetType(name) ==
    /\ pc = "scan"
    /\ curType = NoType
    /\ name \in pendingTypes
    /\ pendingTypes' = pendingTypes \ {name}
    /\ curType' = IF IsCalibration(name) THEN name ELSE NoType
    /\ pendingDates' = IF IsCalibration(name) THEN CalibDatesOf(name) ELSE {}
    /\ UNCHANGED <<scannerVars, filterVars, inputs, dbConnected, pc, exception, queries, refsByTimespan,
                   timespansByDataId, groupsDone, correctedRefsByTimespan,
                   info_messages, warn_messages, log, certified>>

\* Mutant of QueryCalibDate: sqlite3.OperationalError is not caught
QueryCalibDateUncaught(calibDate) ==
    /\ pc = "scan"
    /\ curType # NoType
    /\ calibDate \in pendingDates
    /\ IF NoTables(curType) \/ QueryFails(curType)
       THEN /\ pc' = "raised"
            /\ exception' = IF ~NoTables(curType) THEN "OperationalError"
                             ELSE IF mapperTables[curType].none THEN "TypeError"
                             ELSE "IndexError"
            /\ queries' = IF NoTables(curType) THEN queries
                           ELSE Append(queries, <<curType, calibDate>>)
            /\ UNCHANGED <<pendingDates, curType, refsByTimespan, log>>
       ELSE /\ \E order \in Orderings(QueryRows(curType, calibDate)) :
                  LET st == JoinRows([refs |-> refsByTimespan, log |-> log],
                                     curType, calibDate, order)
                  IN  /\ refsByTimespan' = st.refs
                      /\ log' = st.log
            /\ queries' = Append(queries, <<curType, calibDate>>)
            /\ pendingDates' = pendingDates \ {calibDate}
            /\ curType' = IF pendingDates' = {} THEN NoType ELSE curType
            /\ UNCHANGED <<pc, exception>>
    /\ UNCHANGED <<scannerVars, filterVars, inputs, dbConnected, pendingTypes, timespansByDataId, groupsDone,
                   correctedRefsByTimespan, info_messages, warn_messages, certified>>

\* Lines 148-191 with _queryGen2CalibRegistry: one calibDate of the current type
QueryCalibDate(calibDate) ==
    /\ pc = "scan"
    /\ curType # NoType
    /\ calibDate \in pendingDates
    /\ IF NoTables(curType)
       THEN \* log.warn(..., tables[0]) raises while its arguments are evaluated
            /\ pc' = "raised"
            /\ exception' = IF mapperTables[curType].none THEN "TypeError" ELSE "IndexError"
            /\ UNCHANGED <<pendingDates, curType, queries, refsByTimespan, log>>
       ELSE /\ \E order \in Orderings(QueryRows(curType, calibDate)) :
                  LET st == JoinRows([refs |-> refsByTimespan,
                                      log |-> IF QueryFails(curType)
                                              THEN Append(log, QueryWarning(curType, calibDate))
                                              ELSE log],
                                     curType, calibDate, order)
                  IN  /\ refsByTimespan' = st.refs
                      /\ log' = st.log
            /\ queries' = Append(queries, <<curType, calibDate>>)
            /\ pendingDates' = pendingDates \ {calibDate}
            /\ curType' = IF pendingDates' = {} THEN NoType ELSE curType
            /\ UNCHANGED <<pc, exception>>
    /\ UNCHANGED <<scannerVars, filterVars, inputs, dbConnected, pendingTypes, timespansByDataId, groupsDone,
                   correctedRefsByTimespan, info_messages, warn_messages, certified>>

\* Lines 196-216: regroup the timespans by data ID and dataset type name
Regroup ==
    /\ pc = "scan"
    /\ curType = NoType
    /\ pendingTypes = {}
    /\ timespansByDataId' = Regrouped(refsByTimespan)
    /\ pc' = Phase(Len(timespansByDataId'), {}, {}, 0)
    /\ UNCHANGED <<scannerVars, filterVars, inputs, dbConnected, exception, pendingTypes, curType, pendingDates, queries,
                   refsByTimespan, groupsDone, correctedRefsByTimespan,
                   info_messages, warn_messages, log, certified>>

\* Lines 217-248: one group of the correction loop
CorrectGroup ==
    /\ pc = "correct"
    /\ LET res == GroupCorrection(timespansByDataId[groupsDone + 1].values)
       IN  /\ correctedRefsByTimespan' = StoreCorrected(correctedRefsByTimespan, res.pairs)
           /\ info_messages' = info_messages \cup res.info
           /\ warn_messages' = warn_messages \cup res.warn
    /\ groupsDone' = groupsDone + 1
    /\ pc' = Phase(Len(timespansByDataId) - groupsDone', info_messages', warn_messages',
                   Len(correctedRefsByTimespan'))
    /\ UNCHANGED <<scannerVars, filterVars, inputs, dbConnected, exception, pendingTypes, curType, pendingDates, queries,
                   refsByTimespan, timespansByDataId, log, certified>>

\* Lines 250-251: log the next info message
LogInfo ==
    /\ pc = "info"
    /\ log' = Append(log, [level |-> "info", msg |-> NextMessage(info_messages, "info")])
    /\ pc' = Phase(0, info_messages \ Logged("info")', warn_messages,
                   Len(correctedRefsByTimespan))
    /\ UNCHANGED <<scannerVars, filterVars, inputs, dbConnected, exception, pendingTypes, curType, pendingDates, queries,
                   refsByTimespan, timespansByDataId, groupsDone, correctedRefsByTimespan,
                   info_messages, warn_messages, certified>>

\* Lines 252-253: log the next warning message
LogWarn ==
    /\ pc = "warn"
    /\ log' = Append(log, [level |-> "warn", msg |-> NextMessage(warn_messages, "warn")])
    /\ pc' = Phase(0, {}, warn_messages \ Logged("warn")', Len(correctedRefsByTimespan))
    /\ UNCHANGED <<scannerVars, filterVars, inputs, dbConnected, exception, pendingTypes, curType, pendingDates, queries,
                   refsByTimespan, timespansByDataId, groupsDone, correctedRefsByTimespan,
                   info_messages, warn_messages, certified>>

\* Lines 256-257: certify the next timespan
Certify ==
    /\ pc = "certify"
    /\ LET entry == correctedRefsByTimespan[Len(certified) + 1]
       IN  certified' = Append(certified, [timespan |-> entry.key, refs |-> entry.values])
    /\ pc' = Phase(0, {}, {}, Len(correctedRefsByTimespan) - Len(certified'))
    /\ UNCHANGED <<scannerVars, filterVars, inputs, dbConnected, exception, pendingTypes, curType, pendingDates, queries,
                   refsByTimespan, timespansByDataId, groupsDone, correctedRefsByTimespan,
                   info_messages, warn_messages, log>>

Next ==
    \/ CheckRegistry
    \/ \E name \in DatasetTypeNames : NextDatasetType(name)
    \/ \E calibDate \in {"A", "B"} : QueryCalibDate(calibDate)
    \/ Regroup
    \/ CorrectGroup
    \/ LogInfo
    \/ LogWarn
    \/ Certify

-----------------------------------------------------------------------------
(* The repositories _finish is run on *)

\* A discovered ref: dataset type, calibDate of its run, Gen3 data ID
Ref(name, calibDate, dataId) ==
    [datasetType |-> name, calibDate |-> calibDate, dataId |-> dataId]

\* A row of a calibration registry table
Row(table, calibDate, validity, ccd, filter) ==
    [table |-> table, calibDate |-> calibDate, validStart |-> validity[1],
     validEnd |-> validity[2], ccd |-> ccd, filter |-> filter]

\* mapper.mappings[name].tables: None, or a tuple of table names
Tables(names) == [none |-> FALSE, names |-> names]
NoneTables == [none |-> TRUE, names |-> <<>>]

RECURSIVE SubsetsUpTo(_, _)
\* The subsets of U with at most n elements
SubsetsUpTo(U, n) ==
    IF n = 0 THEN {{}}
    ELSE LET S == SubsetsUpTo(U, n - 1)
         IN  S \cup {s \cup {x} : s \in S, x \in U}

\* The registry holding the given rows in the given tables
RegistryOf(tables, rows) ==
    [t \in tables |-> {[k \in {"calibDate", "validStart", "validEnd", "ccd", "filter"} |-> r[k]] :
                          r \in {x \in rows : x.table = t}}]

\* No scanner is in use
ScannerIdle ==
    /\ files = <<>>
    /\ subdirectories = <<>>
    /\ unadded = {}
    /\ added = <<>>
    /\ scandir = <<>>
    /\ yielded = <<>>
    /\ handlerCalls = <<>>
    /\ accumulated = <<>>
    /\ unrecognized = <<>>
    /\ scannerLog = <<>>
    /\ scannerPc = "idle"

\* No filters are defined and no collection is in use
FiltersIdle ==
    /\ defined = "None"
    /\ afwFilters = <<>>
    /\ filterCalls = <<>>

\* The state on entry to _finish
Entry ==
    /\ ScannerIdle
    /\ FiltersIdle
    /\ pc = "start"
    /\ dbConnected = FALSE
    /\ exception = "None"
    /\ pendingTypes = {r.datasetType : r \in datasets}
    /\ curType = NoType
    /\ pendingDates = {}
    /\ queries = <<>>
    /\ refsByTimespan = <<>>
    /\ timespansByDataId = <<>>
    /\ groupsDone = 0
    /\ correctedRefsByTimespan = <<>>
    /\ info_messages = {}
    /\ warn_messages = {}
    /\ log = <<>>
    /\ certified = <<>>

\* Most rows a registry holds
MaxRows == 4

\* Validity ranges (validStart, validEnd) of the registry rows
Validities == {<<0, 0>>, <<2000, 4000>>}

RefUniverse ==
    {Ref("bias", "A", [detector |-> 1]), Ref("bias", "B", [detector |-> 1]),
     Ref("bias", "A", [detector |-> 2]),
     Ref("flat", "A", [detector |-> 1, physical_filter |-> "r"]),
     Ref("raw", NoDate, [detector |-> 1])}

RowUniverse ==
    {Row("bias", d, v, c, "r") : d \in {"A", "B"}, v \in Validities, c \in {1, 2}}
    \cup {Row("flat", "A", v, 1, "r") : v \in Validities}

\* What the mapper and the registry hold for the flat dataset type
FlatModes == {"table", "no table", "None", "empty"}

Init ==
    /\ datasets \in SUBSET RefUniverse
    /\ calibFileExists \in BOOLEAN
    /\ \E mode \in FlatModes :
         /\ mapperTables = [n \in DatasetTypeNames |->
                               IF n = "flat" /\ mode = "None" THEN NoneTables
                               ELSE IF n = "flat" /\ mode = "empty" THEN Tables(<<>>)
                               ELSE Tables(<<n>>)]
         /\ \E rows \in SubsetsUpTo(RowUniverse, MaxRows) :
              /\ mode # "table" => \A r \in rows : r.table # "flat"
              /\ registry = RegistryOf(IF mode = "table" THEN {"bias", "flat"} ELSE {"bias"}, rows)
    /\ Entry

Spec == Init /\ [][Next]_vars

-----------------------------------------------------------------------------
(* Repositories with one detector and many validity ranges, to exercise the *)
(* correction loop on every kind of gap and overlap.                        *)

\* Most rows the bias table holds
MaxGroupRows == 3

\* validStart and validEnd of the rows.  The ranges end at 1000, 3002 and
\* 4000, so the difference between a begin and an earlier end can be 0 and
\* 998 (a gap that is closed), -2 and -1000 (an overlap that is trimmed),
\* 1001 and -1001 (the threshold itself) or larger either way; ranges can
\* share a begin, and some rows end before they start.
IntervalStarts == {0, 2001, 3000, 4000}
IntervalEnds == {0, 2002, 3000}

IntervalRowUniverse ==
    {Row("bias", d, <<b, e>>, 1, "r") : d \in {"A", "B"}, b \in IntervalStarts, e \in IntervalEnds}

IntervalDatasets ==
    {{Ref("bias", "A", [detector |-> 1]), Ref("bias", "B", [detector |-> c]),
      Ref("raw", NoDate, [detector |-> 1])} : c \in {1, 2}}

InitIntervals ==
    /\ datasets \in IntervalDatasets
    /\ calibFileExists = TRUE
    /\ mapperTables = [n \in DatasetTypeNames |-> Tables(<<n>>)]
    /\ \E rows \in SubsetsUpTo(IntervalRowUniverse, MaxGroupRows) :
         registry = RegistryOf({"bias"}, rows)
    /\ Entry

SpecIntervals == InitIntervals /\ [][Next]_vars

\* validStart and validEnd of rows whose messages sort differently as texts, as
\* numbers and as periods.  The ranges end at 1000 and 1510: a begin of 2000
\* leaves a gap that is closed, a begin of 998 after an end of 1000 an
\* overlap of 2 thousandths of a day, written "172.8 s", a later begin of
\* 1498 after an end of 1510 an overlap of 12, written "1036.8 s", and a
\* begin of 1000 after an end of 1000 neither.
MessageStarts == {998, 1000, 1498, 2000}
MessageEnds == {0, 510}

MaxMessageRows == 4

\* The rows of calibDate "A" are of detector 1, those of "B" of detector c
MessageRowUniverse(c) ==
    {Row("bias", "A", <<b, e>>, 1, "r") : b \in MessageStarts, e \in MessageEnds}
       \cup {Row("bias", "B", <<b, e>>, c, "r") : b \in MessageStarts, e \in MessageEnds}

\* One group of two records, or two groups of one record each
InitMessages ==
    /\ \E c \in {1, 2} :
         /\ datasets = {Ref("bias", "A", [detector |-> 1]), Ref("bias", "B", [detector |-> c]),
                        Ref("raw", NoDate, [detector |-> 1])}
         /\ \E rows \in SubsetsUpTo(MessageRowUniverse(c), MaxMessageRows) :
              registry = RegistryOf({"bias"}, rows)
    /\ calibFileExists = TRUE
    /\ mapperTables = [n \in DatasetTypeNames |-> Tables(<<n>>)]
    /\ Entry

SpecMessages == InitMessages /\ [][Next]_vars

-----------------------------------------------------------------------------
(* What was certified, group by group *)

Done == pc = "done"

RECURSIVE CallPairs(_, _)
\* The (timespan, ref) pairs of one certify call
CallPairs(timespan, refs) ==
    IF refs = <<>> THEN <<>>
    ELSE <<[timespan |-> timespan, ref |-> Head(refs)]>> \o CallPairs(timespan, Tail(refs))

RECURSIVE FlatPairs(_)
\* The (timespan, ref) pairs of a sequence of certify calls
FlatPairs(calls) ==
    IF calls = <<>> THEN <<>>
    ELSE CallPairs(Head(calls).timespan, Head(calls).refs) \o FlatPairs(Tail(calls))

InGroup(key, p) == GroupKey(p.ref) = key

\* The pairs certified for the refs of one group
GroupCertified(key) == SelectSeq(FlatPairs(certified), LAMBDA p : InGroup(key, p))

Count(s, x) == Cardinality({i \in 1..Len(s) : s[i] = x})

\* Two sequences hold the same elements the same number of times
SameBag(s, t) ==
    /\ Len(s) = Len(t)
    /\ \A i \in 1..Len(s) : Count(s, s[i]) = Count(t, s[i])

Groups == {timespansByDataId[i] : i \in 1..Len(timespansByDataId)}

\* Two intervals do not overlap: one ends before the other begins
Disjoint(s, t) == s.end <= t.begin \/ t.end <= s.begin

PairwiseDisjoint(pairs) ==
    \A i, j \in 1..Len(pairs) : i # j => Disjoint(pairs[i].timespan, pairs[j].timespan)

\* Ordered by time: a pair that begins earlier ends before the other begins
OrderedByTime(pairs) ==
    \A i, j \in 1..Len(pairs) :
        pairs[i].timespan.begin < pairs[j].timespan.begin
        => pairs[i].timespan.end <= pairs[j].timespan.begin

WellFormed(pairs) == \A i \in 1..Len(pairs) : pairs[i].timespan.begin <= pairs[i].timespan.end

\* begin of the i+1st minus end of the ith
Gap(s, i) == s[i + 1].timespan.begin - s[i].timespan.end

\* No interval of the sorted group overlaps its successor by the threshold or more
NoLargeOverlap(values) ==
    LET s == SortPairs(values)
    IN  \A i \in 1..(Len(s) - 1) : Gap(s, i) > 0 - fuzzy_day

\* Some interval of the sorted group overlaps its successor by less than the threshold
SomeSmallOverlap(values) ==
    LET s == SortPairs(values)
    IN  \E i \in 1..(Len(s) - 1) : Gap(s, i) < 0 /\ Gap(s, i) > 0 - fuzzy_day

-----------------------------------------------------------------------------
\* C1 (as stated): after correction the intervals certified for the records
\* of any group are mutually disjoint and ordered by time, whatever the raw
\* intervals were (here: even when every raw interval has begin <= end).
C1_AlwaysDisjoint ==
    Done => \A g \in Groups :
               WellFormed(g.values) => /\ PairwiseDisjoint(GroupCertified(g.key))
                                       /\ OrderedByTime(GroupCertified(g.key))

\* C1 (amended): the intervals certified for a group are mutually disjoint
\* and ordered by time provided no raw interval of the sorted group overlaps
\* its successor by one day plus fuzz or more.
C1_DisjointUnlessLargeOverlap ==
    Done => \A g \in Groups :
               NoLargeOverlap(g.values) => /\ PairwiseDisjoint(GroupCertified(g.key))
                                           /\ OrderedByTime(GroupCertified(g.key))

C1_Witness ==
    /\ Done
    /\ \E g \in Groups : /\ Len(g.values) >= 3
                         /\ NoLargeOverlap(g.values)
                         /\ SomeSmallOverlap(g.values)

\* C2: a group holding [t0, t1) and [t1+d, t2) with 0 < d < fuzzy_day is
\* certified as exactly [t0, t1+d) and [t1+d, t2).
C2_GapClosure ==
    Done => \A g \in Groups :
               Len(g.values) = 2 =>
                  \A i, j \in 1..2 :
                     LET p == g.values[i]
                         q == g.values[j]
                         d == q.timespan.begin - p.timespan.end
                     IN  (i # j /\ p.timespan.begin <= p.timespan.end /\ 0 < d /\ d < fuzzy_day)
                         => SameBag(GroupCertified(g.key),
                                    <<[timespan |-> Timespan(p.timespan.begin, q.timespan.begin),
                                       ref |-> p.ref], q>>)

C2_Witness ==
    /\ Done
    /\ \E g \in Groups :
          /\ Len(g.values) = 2
          /\ g.values[1].ref # g.values[2].ref
          /\ g.values[1].timespan.begin < g.values[1].timespan.end
          /\ g.values[2].timespan.begin - g.values[1].timespan.end \in 1..(fuzzy_day - 1)

\* Interval t, at position j of its group, follows interval s, at position i:
\* it begins later, or begins with s and ends later, or is equal to s and
\* comes later in the group's list.
Follows(s, i, t, j) ==
    \/ s.begin < t.begin
    \/ s.begin = t.begin /\ s.end < t.end
    \/ s = t /\ i < j

\* C3: a group holding [t0, t2) followed (in sorted order) by [t1, t3) with
\* t1 < t2 and t2 - t1 < fuzzy_day is certified as exactly [t0, t1) and [t1, t3).
C3_OverlapTrimming ==
    Done => \A g \in Groups :
               Len(g.values) = 2 =>
                  \A i, j \in 1..2 :
                     LET p == g.values[i]
                         q == g.values[j]
                     IN  (/\ i # j
                          /\ Follows(p.timespan, i, q.timespan, j)
                          /\ q.timespan.begin < p.timespan.end
                          /\ p.timespan.end - q.timespan.begin < fuzzy_day)
                         => SameBag(GroupCertified(g.key),
                                    <<[timespan |-> Timespan(p.timespan.begin, q.timespan.begin),
                                       ref |-> p.ref], q>>)

C3_Witness ==
    /\ Done
    /\ \E g \in Groups :
          /\ Len(g.values) = 2
          /\ g.values[1].timespan.begin < g.values[2].timespan.begin
          /\ g.values[2].timespan.begin < g.values[1].timespan.end
          /\ g.values[1].timespan.end - g.values[2].timespan.begin < fuzzy_day

\* C4: if every raw interval has begin <= end, every certified interval has
\* begin <= end, for groups of any size and intervals sharing a begin.
C4_NoNegativeDuration ==
    Done => ((\A t \in DOMAIN refsByTimespan : t.begin <= t.end)
             => \A i \in 1..Len(certified) :
                   certified[i].timespan.begin <= certified[i].timespan.end)

C4_Witness ==
    /\ Done
    /\ \A t \in DOMAIN refsByTimespan : t.begin <= t.end
    /\ \E g \in Groups :
          /\ Len(g.values) >= 3
          /\ \E i, j \in 1..Len(g.values) :
                /\ i # j
                /\ g.values[i].timespan.begin = g.values[j].timespan.begin
          /\ SomeSmallOverlap(g.values)

\* C5 (as stated): when the gap or overlap between an interval and its
\* successor in the sorted group is fuzzy_day or more, both intervals are
\* certified unmodified and no message is recorded for the pair (here: for
\* raw intervals that all have begin <= end).
C5_BothUnmodified ==
    Done => \A g \in Groups :
               LET s == SortPairs(g.values)
               IN  \A i \in 1..(Len(s) - 1) :
                      (WellFormed(s) /\ Abs(Gap(s, i)) >= fuzzy_day) =>
                         /\ Count(GroupCertified(g.key), s[i]) >= 1
                         /\ Count(GroupCertified(g.key), s[i + 1]) >= 1
                         /\ GapMessage(s[i].timespan, s[i + 1].timespan) \notin info_messages
                         /\ OverlapMessage(s[i].timespan, s[i + 1].timespan) \notin warn_messages

\* C5 (amended): when the gap or overlap between an interval and its
\* successor in the sorted group is fuzzy_day or more (the threshold
\* included), the interval is certified unmodified, the begin of the
\* successor is unmodified, the successor is unmodified altogether unless
\* its own successor is within the threshold of its end, and no message is
\* recorded or logged for the pair.
C5_LargeDiscontinuityKept ==
    Done => \A g \in Groups :
               LET s == SortPairs(g.values)
                   out == GroupCorrection(g.values).pairs
               IN  /\ SameBag(out, GroupCertified(g.key))
                   /\ \A i \in 1..(Len(s) - 1) :
                         Abs(Gap(s, i)) >= fuzzy_day =>
                            /\ out[i] = s[i]
                            /\ out[i + 1].ref = s[i + 1].ref
                            /\ out[i + 1].timespan.begin = s[i + 1].timespan.begin
                            /\ (i + 1 = Len(s) \/ Abs(Gap(s, i + 1)) >= fuzzy_day)
                                  => out[i + 1] = s[i + 1]
                            /\ GapMessage(s[i].timespan, s[i + 1].timespan)
                                  \notin info_messages \cup Logged("info")
                            /\ OverlapMessage(s[i].timespan, s[i + 1].timespan)
                                  \notin warn_messages \cup Logged("warn")

C5_Witness ==
    /\ Done
    /\ \E g \in Groups :
          LET s == SortPairs(g.values)
          IN  /\ Len(s) >= 3
              /\ WellFormed(s)
              /\ \E i \in 1..(Len(s) - 2) :
                    /\ Abs(Gap(s, i)) = fuzzy_day
                    /\ Abs(Gap(s, i + 1)) < fuzzy_day

PairSet(pairs) == {pairs[i] : i \in 1..Len(pairs)}

\* C6 (as stated): applying the correction loop to the pairs it produced for
\* a group yields the identical set of pairs (here: for raw intervals that
\* all have begin <= end).
C6_AlwaysIdempotent ==
    Done => \A g \in Groups :
               LET c == GroupCertified(g.key)
               IN  (Len(c) > 0 /\ WellFormed(g.values))
                   => PairSet(GroupCorrection(c).pairs) = PairSet(c)

\* C6 (amended): applying the correction loop to the pairs it produced for a
\* group yields the identical pairs provided the produced intervals have
\* begin <= end and are mutually disjoint.
C6_IdempotentOnDisjoint ==
    Done => \A g \in Groups :
               LET c == GroupCertified(g.key)
               IN  (Len(c) > 0 /\ WellFormed(c) /\ PairwiseDisjoint(c))
                   => SameBag(GroupCorrection(c).pairs, c)

C6_Witness ==
    /\ Done
    /\ \E g \in Groups :
          LET c == GroupCertified(g.key)
          IN  /\ Len(c) >= 3
              /\ WellFormed(c)
              /\ PairwiseDisjoint(c)
              /\ ~SameBag(c, g.values)

-----------------------------------------------------------------------------
(* What was joined, and what the commit holds *)

\* The rows of the registry that _finish joins to a discovered ref
JoinedRows(r) ==
    IF ~IsCalibration(r.datasetType) \/ NoTables(r.datasetType) THEN {}
    ELSE {row \in QueryRows(r.datasetType, r.calibDate) :
             Translate(Gen2Id(r.datasetType, row)) = r.dataId}

JoinCount(r) == Cardinality(JoinedRows(r))

\* How many times a ref was passed to certify, over all calls
Occurrences(r) ==
    LET pairs == FlatPairs(certified)
    IN  Cardinality({i \in 1..Len(pairs) : pairs[i].ref = r})

\* The certify calls whose list of refs holds r
CallsHolding(r) ==
    {i \in 1..Len(certified) : \E k \in 1..Len(certified[i].refs) : certified[i].refs[k] = r}

\* C7 (as stated): every discovered record joined to at least one row appears
\* in exactly one certify call, also when it is joined to several rows.
C7_ExactlyOneCall ==
    Done => \A r \in datasets : JoinCount(r) >= 1 => Cardinality(CallsHolding(r)) = 1

\* C7 (amended): when _finish returns, every discovered record is passed to
\* certify exactly once per registry row it was joined to: it appears in at
\* least one call if it was joined at all, in exactly one call if it was
\* joined to one row, and in no call otherwise.
C7_OncePerJoinedRow ==
    Done => \A r \in datasets :
               /\ Occurrences(r) = JoinCount(r)
               /\ JoinCount(r) >= 1 => CallsHolding(r) # {}
               /\ JoinCount(r) = 1 => Cardinality(CallsHolding(r)) = 1

C7_Witness ==
    /\ Done
    /\ \E r, q \in datasets : /\ JoinCount(r) = 2
                              /\ Cardinality(CallsHolding(r)) = 2
                              /\ JoinCount(q) = 1
                              /\ Cardinality(CallsHolding(q)) = 1

\* The rows of the queries made so far whose data ID matches no discovered ref
UnmatchedRows(name, calibDate) ==
    {row \in QueryRows(name, calibDate) :
        \A r \in datasets : ~(/\ r.datasetType = name
                              /\ r.calibDate = calibDate
                              /\ r.dataId = Translate(Gen2Id(name, row)))}

Queried == {queries[i] : i \in 1..Len(queries)}

DebugEntries == {i \in 1..Len(log) : log[i].level = "debug"}

\* C8: every record passed to certify is a discovered record of a calibration
\* dataset type that a registry row matched, and never more often than it was
\* matched; a row that matches no discovered record only leaves a debug
\* entry: the run raises for no other reason than a missing registry file or
\* a dataset type without tables, and every matched record of the run is
\* still certified.
C8_Soundness ==
    /\ \A i \in 1..Len(certified) : \A k \in 1..Len(certified[i].refs) :
          LET r == certified[i].refs[k]
          IN  /\ r \in datasets
              /\ IsCalibration(r.datasetType)
              /\ JoinCount(r) >= 1
              /\ Occurrences(r) <= JoinCount(r)
    /\ \A i \in DebugEntries :
          /\ <<log[i].msg.datasetType, log[i].msg.calibDate>> \in Queried
          /\ \E row \in UnmatchedRows(log[i].msg.datasetType, log[i].msg.calibDate) :
                Translate(Gen2Id(log[i].msg.datasetType, row)) = log[i].msg.dataId
    /\ pc = "raised" => \/ ~calibFileExists
                        \/ \E r \in datasets : /\ IsCalibration(r.datasetType)
                                               /\ NoTables(r.datasetType)
    /\ Done => /\ \A r \in datasets : JoinCount(r) >= 1 => Occurrences(r) >= 1
               /\ \A q \in Queried :
                     Cardinality({i \in DebugEntries : /\ log[i].msg.datasetType = q[1]
                                                       /\ log[i].msg.calibDate = q[2]})
                     = Cardinality(UnmatchedRows(q[1], q[2]))

C8_Witness ==
    /\ Done
    /\ \E r \in datasets : r.datasetType = "raw"
    /\ \E q \in Queried :
          /\ UnmatchedRows(q[1], q[2]) # {}
          /\ QueryRows(q[1], q[2]) \ UnmatchedRows(q[1], q[2]) # {}
    /\ Len(certified) >= 1

RECURSIVE CorrectedPairs(_)
\* The corrected (timespan, ref) pairs of the first n groups, group by group
CorrectedPairs(n) ==
    IF n = 0 THEN <<>>
    ELSE CorrectedPairs(n - 1) \o GroupCorrection(timespansByDataId[n].values).pairs

\* C9: certify is called once per distinct corrected interval, and each call
\* carries all records, of every group and dataset type, whose corrected
\* interval is that interval.
C9_CommitGrouping ==
    Done => /\ \A i, j \in 1..Len(certified) :
                  i # j => certified[i].timespan # certified[j].timespan
            /\ \A i \in 1..Len(certified) : Len(certified[i].refs) >= 1
            /\ SameBag(FlatPairs(certified), CorrectedPairs(Len(timespansByDataId)))

C9_Witness ==
    /\ Done
    /\ Len(certified) >= 2
    /\ \E i \in 1..Len(certified) : \E k, l \in 1..Len(certified[i].refs) :
          /\ certified[i].refs[k].datasetType # certified[i].refs[l].datasetType
          /\ certified[i].timespan \notin DOMAIN refsByTimespan

\* The log entries of a level that carry a message
EntriesOf(level, m) == {i \in 1..Len(log) : log[i].level = level /\ log[i].msg = m}

\* C10: a gap-closure or overlap-removal message is never logged twice, and
\* when _finish returns every such message that one or more groups produced
\* has been logged exactly once.
C10_MessageDeduplication ==
    /\ \A i, j \in 1..Len(log) :
          (i # j /\ log[i] = log[j]) => log[i].msg.kind \notin {"gap", "overlap"}
    /\ Done => \A g \in Groups :
                  LET res == GroupCorrection(g.values)
                  IN  /\ \A m \in res.info : Cardinality(EntriesOf("info", m)) = 1
                      /\ \A m \in res.warn : Cardinality(EntriesOf("warn", m)) = 1

C10_Witness ==
    /\ Done
    /\ \E g, h \in Groups :
          /\ g.key # h.key
          /\ \E m \in GroupCorrection(g.values).info \cap GroupCorrection(h.values).info :
                Cardinality(EntriesOf("info", m)) = 1

-----------------------------------------------------------------------------
(* Failures of the registry *)

\* C11: if calibRegistry.sqlite3 does not exist, _finish raises RuntimeError
\* before it connects to a database, runs a query, logs a message or calls
\* certify, whatever datasets were discovered.
C11_MissingRegistryFatal ==
    ~calibFileExists =>
        /\ pc \in {"start", "raised"}
        /\ pc = "raised" => exception = "RuntimeError"
        /\ ~dbConnected
        /\ queries = <<>>
        /\ log = <<>>
        /\ certified = <<>>
        /\ refsByTimespan = <<>>

C11_Witness ==
    /\ ~calibFileExists
    /\ pc = "raised"
    /\ exception = "RuntimeError"
    /\ \E r \in datasets : JoinCount(r) >= 2
    /\ \E r \in datasets : ~IsCalibration(r.datasetType)

\* C12: when the mapping of a calibration dataset type has no tables (None
\* or an empty sequence), the query logs a warning and yields no rows
\* without raising, and _finish goes on: no run with an existing registry
\* file ends in an exception.
C12_NoTablesNonFatal ==
    (calibFileExists /\ \E name \in DatasetTypeNames : NoTables(name))
        => /\ pc # "raised"
           /\ exception = "None"

\* The dataset type has a table configured that the registry does not hold
FailsQuery(name) == ~NoTables(name) /\ QueryFails(name)

\* The log records that warn of the failed query of a dataset type and calibDate
FailureWarnings(name, calibDate) ==
    {k \in 1..Len(log) :
        log[k] = [level |-> "warn", msg |-> [kind |-> "query failed", datasetType |-> name,
                                             calibDate |-> calibDate]]}

\* C13: a query that raises sqlite3.OperationalError is absorbed: it is
\* executed at most once per (dataset type, calibDate), it logs one warning
\* and yields no rows (no record of that type is joined, reported missing or
\* certified), it never ends _finish in an exception, and when _finish
\* returns the records of the other dataset types are certified for every
\* row they were joined to.
C13_FailedQueryAbsorbed ==
    /\ \A i, j \in 1..Len(queries) : i # j => queries[i] # queries[j]
    /\ \A i \in 1..Len(queries) :
          FailsQuery(queries[i][1]) =>
             /\ Cardinality(FailureWarnings(queries[i][1], queries[i][2])) = 1
             /\ \A t \in DOMAIN refsByTimespan : \A k \in 1..Len(refsByTimespan[t]) :
                   refsByTimespan[t][k].datasetType # queries[i][1]
             /\ \A k \in DebugEntries : log[k].msg.datasetType # queries[i][1]
             /\ \A k \in 1..Len(certified) : \A l \in 1..Len(certified[k].refs) :
                   certified[k].refs[l].datasetType # queries[i][1]
    /\ \A k \in 1..Len(log) :
          log[k].msg.kind = "query failed"
             => /\ FailsQuery(log[k].msg.datasetType)
                /\ <<log[k].msg.datasetType, log[k].msg.calibDate>> \in Queried
    /\ (pc = "raised" /\ calibFileExists) => (curType # NoType /\ NoTables(curType))
    /\ exception \in {"None", "RuntimeError", "TypeError", "IndexError"}
    /\ Done => \A r \in datasets :
                  (IsCalibration(r.datasetType) /\ ~FailsQuery(r.datasetType))
                     => Occurrences(r) = JoinCount(r)

C13_Witness ==
    /\ Done
    /\ Len(queries) >= 2
    /\ FailsQuery(queries[1][1])
    /\ ~FailsQuery(queries[Len(queries)][1])
    /\ \E r \in datasets : /\ r.datasetType = queries[Len(queries)][1]
                           /\ Occurrences(r) >= 1
    /\ \E r \in datasets : r.datasetType = queries[1][1]

-----------------------------------------------------------------------------
(* The scenario of the inclusive end date.  Day 0 is 2020-01-01, so the    *)
(* rows (validStart, validEnd) are (0, 0) and (2000, 4000).                *)

\* The refs of a group, as a set
GroupMembers(g) == {g.values[i].ref : i \in 1..Len(g.values)}

\* The validity ranges of the rows joined to the refs of a group
GroupValidities(g) ==
    {<<row.validStart, row.validEnd>> : row \in UNION {JoinedRows(r) : r \in GroupMembers(g)}}

\* The timespans a sequence of pairs holds
TimespansOf(pairs) == {pairs[i].timespan : i \in 1..Len(pairs)}

\* C14: rows (01-01, 01-01) and (01-03, 01-05) joined to records of one data
\* ID and dataset type give the raw intervals [01-01, 01-02) and
\* [01-03, 01-06); the intervals certified are [01-01, 01-03) and
\* [01-03, 01-06), and one gap-closed message is logged at info.
C14_InclusiveEndScenario ==
    \A g \in Groups :
        (Len(g.values) = 2 /\ GroupValidities(g) = {<<0, 0>>, <<2 * day, 4 * day>>})
        => /\ TimespansOf(g.values) = {Timespan(0, day), Timespan(2 * day, 5 * day)}
           /\ Done =>
                 /\ Len(GroupCertified(g.key)) = 2
                 /\ TimespansOf(GroupCertified(g.key))
                       = {Timespan(0, 2 * day), Timespan(2 * day, 5 * day)}
                 /\ \A p \in PairSet(g.values) :
                       \E q \in PairSet(GroupCertified(g.key)) :
                          q.ref = p.ref /\ q.timespan.begin = p.timespan.begin
                 /\ Cardinality(EntriesOf("info", [kind |-> "gap", from |-> day,
                                                   to |-> 2 * day])) = 1

C14_Witness ==
    /\ Done
    /\ \E g \in Groups :
          /\ Len(g.values) = 2
          /\ GroupValidities(g) = {<<0, 0>>, <<2 * day, 4 * day>>}
          /\ g.values[1].ref # g.values[2].ref
          /\ Len(log) = 1

-----------------------------------------------------------------------------
(* Independence of the groups *)

\* r and x have the same data ID and dataset type name
SameIdentifier(r, x) == x.dataId = r.dataId /\ x.datasetType = r.datasetType

RECURSIVE OwnRawPairs(_, _)
\* The raw (timespan, ref) pairs of the data ID and dataset type of r, read
\* from refsByTimespan in the given order of timespans
OwnRawPairs(order, r) ==
    IF order = <<>> THEN <<>>
    ELSE CallPairs(Head(order),
                   SelectSeq(refsByTimespan[Head(order)], LAMBDA x : SameIdentifier(r, x)))
         \o OwnRawPairs(Tail(order), r)

\* The pairs certified for the data ID and dataset type of r
OwnCertified(r) == SelectSeq(FlatPairs(certified), LAMBDA p : SameIdentifier(r, p.ref))

\* C15: the corrected intervals of a (data ID, dataset type name) group are
\* the correction of that group's own raw pairs alone, whatever pairs the
\* other groups of the run hold; two groups with the same raw intervals get
\* the same corrected intervals.
C15_GroupIndependence ==
    Done => /\ \A r \in datasets :
                  LET raw == OwnRawPairs(SortedTimespans(DOMAIN refsByTimespan), r)
                  IN  IF raw = <<>> THEN OwnCertified(r) = <<>>
                      ELSE SameBag(OwnCertified(r), GroupCorrection(raw).pairs)
            /\ \A r, q \in datasets :
                  LET order == SortedTimespans(DOMAIN refsByTimespan)
                  IN  TimespansOf(OwnRawPairs(order, r)) = TimespansOf(OwnRawPairs(order, q))
                      /\ Len(OwnRawPairs(order, r)) = Cardinality(TimespansOf(OwnRawPairs(order, r)))
                      /\ Len(OwnRawPairs(order, q)) = Cardinality(TimespansOf(OwnRawPairs(order, q)))
                      => TimespansOf(OwnCertified(r)) = TimespansOf(OwnCertified(q))

C15_Witness ==
    /\ Done
    /\ \E g, h \in Groups :
          /\ g.key # h.key
          /\ Len(g.values) >= 2
          /\ Len(h.values) >= 2
          /\ TimespansOf(g.values) # TimespansOf(h.values)
          /\ TimespansOf(GroupCertified(g.key)) # TimespansOf(g.values)
          /\ TimespansOf(GroupCertified(h.key)) # TimespansOf(h.values)

-----------------------------------------------------------------------------
(* DirectoryScanner: repoWalker/scanner.py *)

\* A PathElementHandler: isForFiles(), rank, and the names of the entries on
\* which __call__ returns True
Handler(id, forFiles, rank, matches) ==
    [id |-> id, isForFiles |-> forFiles, rank |-> rank, matches |-> matches]

\* An os.DirEntry: its name and whether is_file() or is_dir() holds
DirEntry(name, kind) == [name |-> name, kind |-> kind]

\* PathElementHandler.__lt__
HandlerLess(h, other) == h.rank < other.rank

RECURSIVE BisectLeft(_, _, _, _)
\* Mutant of BisectRight: bisect.bisect_left, which places x before its equals
BisectLeft(a, x, lo, hi) ==
    IF lo < hi
    THEN LET mid == (lo + hi) \div 2
         IN  IF HandlerLess(a[mid + 1], x) THEN BisectLeft(a, x, mid + 1, hi)
             ELSE BisectLeft(a, x, lo, mid)
    ELSE lo

RECURSIVE BisectRight(_, _, _, _)
\* bisect.bisect_right(a, x) with __lt__; lo and hi count from 0
BisectRight(a, x, lo, hi) ==
    IF lo < hi
    THEN LET mid == (lo + hi) \div 2
         IN  IF HandlerLess(x, a[mid + 1]) THEN BisectRight(a, x, lo, mid)
             ELSE BisectRight(a, x, mid + 1, hi)
    ELSE lo

\* Mutant of Insort: the handler is appended
InsortAppends(a, x) == Append(a, x)

\* bisect.insort(a, x)
Insort(a, x) ==
    LET k == BisectRight(a, x, 0, Len(a))
    IN  SubSeq(a, 1, k) \o <<x>> \o SubSeq(a, k + 1, Len(a))

\* DirectoryScanner.__iter__: the handlers for files, then those for
\* directories
Iterate == files \o subdirectories

\* handler(entry.path, entry.name, datasets, predicate=predicate)
Invoke(handler, entry) == entry.name \in handler.matches

\* Mutant of Pool: every entry that is not a directory goes to the file handlers
PoolFilesUnlessDir(entry) ==
    IF entry.kind = "dir" THEN [skip |-> FALSE, handlers |-> subdirectories]
    ELSE [skip |-> FALSE, handlers |-> files]

\* Lines 219-224: the handlers for an entry, or skip
Pool(entry) ==
    IF entry.kind = "file" THEN [skip |-> FALSE, handlers |-> files]
    ELSE IF entry.kind = "dir" THEN [skip |-> FALSE, handlers |-> subdirectories]
    ELSE [skip |-> TRUE, handlers |-> <<>>]

RECURSIVE TryHandlersNoBreak(_, _)
\* Mutant of TryHandlers: the loop does not stop at a match
TryHandlersNoBreak(handlers, entry) ==
    IF handlers = <<>> THEN <<>>
    ELSE <<[entry |-> entry, handler |-> Head(handlers),
            matched |-> Invoke(Head(handlers), entry)]>>
         \o TryHandlersNoBreak(Tail(handlers), entry)

RECURSIVE TryHandlers(_, _)
\* Lines 225-227: the invocations made for one entry, in order
TryHandlers(handlers, entry) ==
    IF handlers = <<>> THEN <<>>
    ELSE LET matched == Invoke(Head(handlers), entry)
             call == [entry |-> entry, handler |-> Head(handlers), matched |-> matched]
         IN  IF matched THEN <<call>>
             ELSE <<call>> \o TryHandlers(Tail(handlers), entry)

\* The mutations of the accumulator made by a sequence of invocations: a
\* handler adds to datasets only when it matches
Mutations(invocations) == SelectSeq(invocations, LAMBDA c : c.matched)

\* Mutant of WarnRecords: the warning is emitted for an empty list too
WarnRecordsAlways(path, names) ==
    <<[level |-> "warn", path |-> path, names |-> names]>>

\* Lines 230-231: the records logged at the end of scan
WarnRecords(path, names) ==
    IF names # <<>> THEN <<[level |-> "warn", path |-> path, names |-> names]>>
    ELSE <<>>

\* DirectoryScanner.add
Add(handler) ==
    /\ scannerPc = "add"
    /\ handler \in unadded
    /\ unadded' = unadded \ {handler}
    /\ added' = Append(added, handler)
    /\ IF handler.isForFiles
       THEN files' = Insort(files, handler) /\ UNCHANGED subdirectories
       ELSE subdirectories' = Insort(subdirectories, handler) /\ UNCHANGED files
    /\ UNCHANGED <<finishVars, filterVars, scandir, yielded, handlerCalls, accumulated,
                   unrecognized, scannerLog, scannerPc>>

\* Line 217: scan is called
BeginScan ==
    /\ scannerPc = "add"
    /\ scannerPc' = "scan"
    /\ unrecognized' = <<>>
    /\ UNCHANGED <<finishVars, filterVars, files, subdirectories, unadded, added, scandir,
                   yielded, handlerCalls, accumulated, scannerLog>>

\* Lines 218-229: the body of the loop for the next entry
ScanEntry ==
    /\ scannerPc = "scan"
    /\ scandir # <<>>
    /\ LET entry == Head(scandir)
           pool == Pool(entry)
           invocations == TryHandlers(pool.handlers, entry)
       IN  /\ handlerCalls' = handlerCalls \o invocations
           /\ accumulated' = accumulated \o Mutations(invocations)
           /\ unrecognized' = IF /\ ~pool.skip
                                 /\ \A i \in 1..Len(invocations) : ~invocations[i].matched
                              THEN Append(unrecognized, entry.name)
                              ELSE unrecognized
    /\ scandir' = Tail(scandir)
    /\ yielded' = Append(yielded, Head(scandir))
    /\ UNCHANGED <<finishVars, filterVars, files, subdirectories, unadded, added, scannerLog,
                   scannerPc>>

\* Lines 230-231: the loop is over
EndScan ==
    /\ scannerPc = "scan"
    /\ scandir = <<>>
    /\ scannerLog' = scannerLog \o WarnRecords("path", unrecognized)
    /\ scannerPc' = "done"
    /\ UNCHANGED <<finishVars, filterVars, files, subdirectories, unadded, added, scandir,
                   yielded, handlerCalls, accumulated, unrecognized>>

NextScanner ==
    \/ \E handler \in unadded : Add(handler)
    \/ BeginScan
    \/ ScanEntry
    \/ EndScan

\* _finish is not running
FinishIdle ==
    /\ datasets = {}
    /\ registry = <<>>
    /\ calibFileExists = FALSE
    /\ dbConnected = FALSE
    /\ mapperTables = <<>>
    /\ pc = "idle"
    /\ exception = "None"
    /\ pendingTypes = {}
    /\ curType = NoType
    /\ pendingDates = {}
    /\ queries = <<>>
    /\ refsByTimespan = <<>>
    /\ timespansByDataId = <<>>
    /\ groupsDone = 0
    /\ correctedRefsByTimespan = <<>>
    /\ info_messages = {}
    /\ warn_messages = {}
    /\ log = <<>>
    /\ certified = <<>>

\* Most handlers offered to a scanner, and most entries of a directory
MaxHandlers == 3
MaxEntries == 2

\* Handlers for files and for directories: of rank 0 for one name, and of
\* higher ranks for several names, two of them of the same rank
HandlerUniverse ==
    {Handler("f0", TRUE, 0, {"a"}), Handler("f1", TRUE, 1, {"a", "b"}),
     Handler("f1x", TRUE, 1, {"a"}), Handler("f2", TRUE, 2, {"b"}),
     Handler("d0", FALSE, 0, {"a"}), Handler("d1", FALSE, 1, {"a", "b"})}

EntryNames == {"a", "b", "c"}

EntryKinds == {"file", "dir", "other"}

\* The listings of a directory: entries of distinct names in any order
Listings ==
    UNION {{l \in [1..n -> {DirEntry(name, kind) : name \in EntryNames, kind \in EntryKinds}] :
               \A i, j \in 1..n : i # j => l[i].name # l[j].name} : n \in 0..MaxEntries}

InitScanner ==
    /\ FinishIdle
    /\ FiltersIdle
    /\ files = <<>>
    /\ subdirectories = <<>>
    /\ unadded \in SubsetsUpTo(HandlerUniverse, MaxHandlers)
    /\ added = <<>>
    /\ scandir \in Listings
    /\ yielded = <<>>
    /\ handlerCalls = <<>>
    /\ accumulated = <<>>
    /\ unrecognized = <<>>
    /\ scannerLog = <<>>
    /\ scannerPc = "add"

SpecScanner == InitScanner /\ [][NextScanner]_vars

-----------------------------------------------------------------------------
(* What scan did, entry by entry *)

\* The invocations made on an entry, in order
CallsOn(entry) == SelectSeq(handlerCalls, LAMBDA c : c.entry = entry)

\* The entries on which a handler was invoked
EntriesCalled == {handlerCalls[i].entry : i \in 1..Len(handlerCalls)}

\* The handlers added for the kind of an entry, in no order
AddedFor(entry) ==
    IF entry.kind = "file" THEN {files[i] : i \in 1..Len(files)}
    ELSE IF entry.kind = "dir" THEN {subdirectories[i] : i \in 1..Len(subdirectories)}
    ELSE {}

\* C16: whatever the order in which the handlers were added, the handlers
\* are invoked on an entry in ascending order of rank, none being invoked
\* before a handler of lower rank; if a handler of rank 0 matches the entry,
\* a handler of rank 0 handles it and no handler of higher rank is invoked
\* on it.
C16_RankOrdering ==
    \A e \in EntriesCalled :
       LET cs == CallsOn(e)
       IN  /\ \A i, j \in 1..Len(cs) : i < j => cs[i].handler.rank <= cs[j].handler.rank
           /\ \A i \in 1..Len(cs) : \A h \in AddedFor(e) :
                 h.rank < cs[i].handler.rank => \E j \in 1..(i - 1) : cs[j].handler = h
           /\ (\E h \in AddedFor(e) : h.rank = 0 /\ Invoke(h, e))
                 => /\ cs[Len(cs)].matched
                    /\ \A i \in 1..Len(cs) : cs[i].handler.rank = 0

C16_Witness ==
    /\ scannerPc = "done"
    /\ Len(files) = 3
    /\ \E e \in EntriesCalled :
          /\ e.kind = "file"
          /\ Cardinality({h \in AddedFor(e) : Invoke(h, e)}) = 3
          /\ Len(CallsOn(e)) = 1
          /\ CallsOn(e)[1].handler.rank = 0

\* The mutations of the accumulator made for an entry
MutationsFor(entry) == SelectSeq(accumulated, LAMBDA c : c.entry = entry)

\* C17: on each entry scan stops at the first handler that returns True: no
\* handler is invoked on the entry after it, no handler is invoked twice,
\* and at most one handler, the one that returned True, changes the
\* accumulator for the entry.
C17_AtMostOneMatch ==
    /\ \A e \in EntriesCalled :
          LET cs == CallsOn(e)
          IN  /\ \A i \in 1..(Len(cs) - 1) : ~cs[i].matched
              /\ \A i, j \in 1..Len(cs) : i # j => cs[i].handler # cs[j].handler
              /\ Len(MutationsFor(e)) <= 1
              /\ MutationsFor(e) = SelectSeq(cs, LAMBDA c : c.matched)
    /\ \A i \in 1..Len(accumulated) : accumulated[i].entry \in EntriesCalled

C17_Witness ==
    /\ scannerPc = "done"
    /\ \E e \in EntriesCalled :
          /\ Cardinality({h \in AddedFor(e) : Invoke(h, e)}) >= 2
          /\ Len(CallsOn(e)) = 2
          /\ Len(MutationsFor(e)) = 1

\* No handler added for the kind of the entry returns True on it
Unhandled(entry) ==
    /\ entry.kind \in {"file", "dir"}
    /\ \A h \in AddedFor(entry) : ~Invoke(h, entry)

RECURSIVE NamesOf(_)
\* The names of a sequence of entries, in order
NamesOf(listing) ==
    IF listing = <<>> THEN <<>> ELSE <<Head(listing).name>> \o NamesOf(Tail(listing))

\* C18: one scan emits at most one warning, only after every entry of the
\* directory has been processed and only if some file or directory entry had
\* no handler returning True; the warning lists exactly the names of those
\* entries; and the entries that come after an unrecognized one are still
\* offered to the handlers.
C18_UnrecognizedReportedOnce ==
    /\ Len(scannerLog) <= 1
    /\ scannerLog # <<>> => (scannerPc = "done" /\ scandir = <<>>)
    /\ scannerPc = "done" =>
          LET names == NamesOf(SelectSeq(yielded, Unhandled))
          IN  /\ scandir = <<>>
              /\ IF names = <<>> THEN scannerLog = <<>>
                 ELSE scannerLog = <<[level |-> "warn", path |-> "path", names |-> names]>>
    /\ \A i \in 1..Len(yielded) :
          (yielded[i].kind \in {"file", "dir"} /\ AddedFor(yielded[i]) # {})
             => yielded[i] \in EntriesCalled

C18_Witness ==
    /\ scannerPc = "done"
    /\ Len(yielded) = 2
    /\ Unhandled(yielded[1])
    /\ AddedFor(yielded[1]) # {}
    /\ ~Unhandled(yielded[2])
    /\ yielded[2] \in EntriesCalled
    /\ Len(scannerLog) = 1

\* The names that scan has listed as unrecognized or has reported
NamesListed ==
    {unrecognized[i] : i \in 1..Len(unrecognized)}
    \cup UNION {{scannerLog[k].names[i] : i \in 1..Len(scannerLog[k].names)} :
                   k \in 1..Len(scannerLog)}

\* C19: file handlers are invoked on file entries only and directory
\* handlers on directory entries only; an entry that is neither a file nor a
\* directory is offered to no handler, changes nothing in the accumulator
\* and is not listed as unrecognized.
C19_PoolSelection ==
    /\ \A i \in 1..Len(handlerCalls) :
          LET c == handlerCalls[i]
          IN  /\ c.entry.kind \in {"file", "dir"}
              /\ c.handler.isForFiles <=> c.entry.kind = "file"
    /\ \A i \in 1..Len(yielded) :
          yielded[i].kind \notin {"file", "dir"}
             => /\ yielded[i] \notin EntriesCalled
                /\ MutationsFor(yielded[i]) = <<>>
                /\ yielded[i].name \notin NamesListed

C19_Witness ==
    /\ scannerPc = "done"
    /\ Len(files) >= 1
    /\ Len(subdirectories) >= 1
    /\ \E i, j \in 1..Len(yielded) :
          /\ yielded[i].kind = "other"
          /\ \E k \in 1..Len(files) : Invoke(files[k], yielded[i])
          /\ yielded[j].kind = "dir"
          /\ \E k \in 1..Len(files) : Invoke(files[k], yielded[j])
          /\ yielded[j] \in EntriesCalled

-----------------------------------------------------------------------------
(* FilterDefinitionCollection, as tests/test_filters.py exercises it *)

\* The collections built by setUp
Collections == {"filters1", "filters2"}

\* lambdaEff of the physical filters of a collection
Definitions(collection) ==
    IF collection = "filters1" THEN [abc |-> 123, def |-> 456]
    ELSE [abc |-> 321, def |-> 654]

\* A call made on a collection and whether it raised RuntimeError
FilterCall(op, collection, raised) == [op |-> op, collection |-> collection, raised |-> raised]

\* Most calls made on the collections between setUp and the end of a test
MaxFilterCalls == 4

\* Mutant of DefineFilters: a later call defines the filters again
DefineFiltersAgain(collection) ==
    /\ Len(filterCalls) < MaxFilterCalls
    /\ defined' = collection
    /\ afwFilters' = Definitions(collection)
    /\ filterCalls' = Append(filterCalls, FilterCall("defineFilters", collection, FALSE))
    /\ UNCHANGED <<finishVars, scannerVars>>

\* collection.defineFilters()
DefineFilters(collection) ==
    /\ Len(filterCalls) < MaxFilterCalls
    /\ IF defined = "None"
       THEN /\ defined' = collection
            /\ afwFilters' = Definitions(collection)
            /\ filterCalls' = Append(filterCalls, FilterCall("defineFilters", collection, FALSE))
       ELSE /\ UNCHANGED <<defined, afwFilters>>
            /\ filterCalls' = Append(filterCalls, FilterCall("defineFilters", collection,
                                                             defined # collection))
    /\ UNCHANGED <<finishVars, scannerVars>>

\* Mutant of Reset: the filters are cleared but the collection stays defined
ResetKeepsDefined(collection) ==
    /\ Len(filterCalls) < MaxFilterCalls
    /\ afwFilters' = <<>>
    /\ filterCalls' = Append(filterCalls, FilterCall("reset", collection, FALSE))
    /\ UNCHANGED <<finishVars, scannerVars, defined>>

\* FilterDefinitionCollection.reset(), called on the class or on a collection
Reset(collection) ==
    /\ Len(filterCalls) < MaxFilterCalls
    /\ defined' = "None"
    /\ afwFilters' = <<>>
    /\ filterCalls' = Append(filterCalls, FilterCall("reset", collection, FALSE))
    /\ UNCHANGED <<finishVars, scannerVars>>

NextFilters ==
    \/ \E collection \in Collections : DefineFilters(collection)
    \/ \E collection \in Collections : Reset(collection)

\* The state after setUp
InitFilters ==
    /\ FinishIdle
    /\ ScannerIdle
    /\ FiltersIdle

SpecFilters == InitFilters /\ [][NextFilters]_vars

\* The position of the last reset among the calls, or 0
LastReset ==
    IF \E i \in 1..Len(filterCalls) : filterCalls[i].op = "reset"
    THEN CHOOSE i \in 1..Len(filterCalls) :
            /\ filterCalls[i].op = "reset"
            /\ \A j \in (i + 1)..Len(filterCalls) : filterCalls[j].op # "reset"
    ELSE 0

\* The defineFilters calls made since the last reset
SinceReset == SubSeq(filterCalls, LastReset + 1, Len(filterCalls))

\* C20: between resets the first defineFilters call fixes the defined
\* filters; a later defineFilters call leaves them unchanged, returning
\* silently when made on the same collection and raising RuntimeError when
\* made on a different one.
C20_FilterSingleton ==
    IF SinceReset = <<>>
    THEN defined = "None" /\ afwFilters = <<>>
    ELSE LET first == SinceReset[1]
         IN  /\ ~first.raised
             /\ defined = first.collection
             /\ afwFilters = Definitions(first.collection)
             /\ \A i \in 2..Len(SinceReset) :
                   SinceReset[i].raised <=> SinceReset[i].collection # first.collection

C20_Witness ==
    /\ Len(SinceReset) = 3
    /\ SinceReset[1] = FilterCall("defineFilters", "filters1", FALSE)
    /\ SinceReset[2] = FilterCall("defineFilters", "filters1", FALSE)
    /\ SinceReset[3] = FilterCall("defineFilters", "filters2", TRUE)
    /\ afwFilters = [abc |-> 123, def |-> 456]

\* The collections whose defineFilters call succeeded before the last reset
DefinedBeforeReset ==
    {filterCalls[i].collection :
        i \in {j \in 1..(LastReset - 1) : /\ filterCalls[j].op = "defineFilters"
                                          /\ ~filterCalls[j].raised}}

\* C21: whatever was defined, refused or reset before, a defineFilters call
\* that follows a reset succeeds, also on a collection other than the one
\* defined before, and the defined filters are then exactly those of the
\* new collection; right after a reset no filter is defined.
C21_FilterReset ==
    /\ \A i \in 1..(Len(filterCalls) - 1) :
          (filterCalls[i].op = "reset" /\ filterCalls[i + 1].op = "defineFilters")
             => ~filterCalls[i + 1].raised
    /\ (LastReset > 0 /\ LastReset = Len(filterCalls))
          => (afwFilters = <<>> /\ defined = "None")
    /\ (LastReset > 0 /\ LastReset = Len(filterCalls) - 1)
          => LET new == filterCalls[Len(filterCalls)].collection
             IN  /\ defined = new
                 /\ DOMAIN afwFilters = DOMAIN Definitions(new)
                 /\ \A name \in DOMAIN afwFilters : afwFilters[name] = Definitions(new)[name]

C21_Witness ==
    /\ Len(filterCalls) = 4
    /\ filterCalls[1] = FilterCall("defineFilters", "filters1", FALSE)
    /\ filterCalls[2] = FilterCall("defineFilters", "filters2", TRUE)
    /\ filterCalls[3].op = "reset"
    /\ filterCalls[4] = FilterCall("defineFilters", "filters2", FALSE)
    /\ DefinedBeforeReset = {"filters1"}
    /\ afwFilters = [abc |-> 321, def |-> 654]

-----------------------------------------------------------------------------
(* The phases of _finish *)

\* The places of the log that hold a gap-closure or overlap-removal message
MessageEntries == {i \in 1..Len(log) : log[i].msg.kind \in {"gap", "overlap"}}

\* The queries _finish has to make: one per calibration dataset type and
\* calibDate of a discovered record
QueriesDue ==
    {<<r.datasetType, r.calibDate>> : r \in {x \in datasets : IsCalibration(x.datasetType)}}

\* The texts of two messages, the first sorting strictly before the second
TextBefore(m, n) == LexLess(Text(m), Text(n))

\* C22: in one run of _finish every query of the registry and every group's
\* correction is complete before the first gap-closure or overlap-removal
\* message is logged; the info messages are logged in ascending order of
\* their texts, then the warning messages in ascending order of theirs; and
\* certify is not called before every message has been logged.
C22_PhaseOrdering ==
    /\ MessageEntries # {} =>
          /\ Queried = QueriesDue
          /\ groupsDone = Len(timespansByDataId)
          /\ \A i \in MessageEntries :
                log[i].msg \in (IF log[i].level = "info" THEN info_messages ELSE warn_messages)
    /\ \A i, j \in MessageEntries :
          i < j => /\ ~(log[i].level = "warn" /\ log[j].level = "info")
                   /\ log[i].level = log[j].level => TextBefore(log[i].msg, log[j].msg)
    /\ certified # <<>> =>
          /\ \A m \in info_messages : EntriesOf("info", m) # {}
          /\ \A m \in warn_messages : EntriesOf("warn", m) # {}

\* A gap was closed and two overlaps were removed, the longer and later one
\* sorting first by its text; all three are logged and certify has run
C22_Witness ==
    /\ Done
    /\ certified # <<>>
    /\ \E i, j, k \in MessageEntries :
          /\ i < j /\ j < k
          /\ log[i].level = "info"
          /\ log[j].level = "warn" /\ log[k].level = "warn"
          /\ log[k].msg.from < log[j].msg.from
          /\ log[k].msg.duration < log[j].msg.duration

-----------------------------------------------------------------------------
(* What the correction leaves alone *)

\* The intervals the ith pair of a sorted group may be certified with: its
\* own, or, when a successor begins within the threshold of its end, the
\* interval from its begin to the successor's begin
Allowed(s, i) ==
    {s[i].timespan}
       \cup (IF i < Len(s) /\ Abs(Gap(s, i)) < fuzzy_day
             THEN {[begin |-> s[i].timespan.begin, end |-> s[i + 1].timespan.begin]}
             ELSE {})

\* The one-to-one assignments of n places to n places
Bijections(n) == {f \in [1..n -> 1..n] : \A i, j \in 1..n : i # j => f[i] # f[j]}

\* C23: the pairs certified for a group are the pairs of the group, one for
\* one and with the same record and the same begin; the end of a pair differs
\* from the raw end only where the pair has a successor in the sorted group
\* that begins within the threshold of that end, and is then the begin of the
\* successor; the last pair of the sorted group keeps its interval.
C23_TrustsValidityStart ==
    Done => \A g \in Groups :
               LET s == SortPairs(g.values)
                   c == GroupCertified(g.key)
               IN  /\ Len(c) = Len(s)
                   /\ \E f \in Bijections(Len(s)) :
                         \A i \in 1..Len(s) :
                            /\ c[f[i]].ref = s[i].ref
                            /\ c[f[i]].timespan.begin = s[i].timespan.begin
                            /\ c[f[i]].timespan \in Allowed(s, i)
                            /\ i = Len(s) => c[f[i]].timespan = s[i].timespan

\* A group of three: the end of the first pair was moved to the begin of the
\* second, the second is followed at a distance and kept its end as the
\* third did
C23_Witness ==
    /\ Done
    /\ \E g \in Groups :
          LET s == SortPairs(g.values)
              c == GroupCertified(g.key)
          IN  /\ Len(s) = 3
              /\ WellFormed(s)
              /\ Abs(Gap(s, 1)) < fuzzy_day /\ Gap(s, 1) # 0
              /\ Abs(Gap(s, 2)) > fuzzy_day
              /\ s[1].timespan \notin TimespansOf(c)
              /\ {s[2].timespan, s[3].timespan} \subseteq TimespansOf(c)

-----------------------------------------------------------------------------
(* Intervals that abut *)

\* The message of the overlap branch for the ith pair of a sorted group and
\* its successor
OverlapText(s, i) ==
    [kind |-> "overlap", duration |-> Abs(Gap(s, i)),
     from |-> s[i + 1].timespan.begin, to |-> s[i].timespan.end]

-----------------------------------------------------------------------------
(* The two pools of a DirectoryScanner *)

\* The place a handler has in the order of the add calls
AddIndex(h) == CHOOSE k \in 1..Len(added) : added[k] = h

\* A pool in non-decreasing order of rank, handlers of one rank in the order
\* in which they were added
PoolSorted(pool) ==
    \A i, j \in 1..Len(pool) :
       i < j => \/ pool[i].rank < pool[j].rank
                \/ pool[i].rank = pool[j].rank /\ AddIndex(pool[i]) < AddIndex(pool[j])

\* Every added handler is in the pool of its kind once and in the other pool
\* not at all, the pools hold nothing else, and both are sorted
PoolsPartitioned ==
    /\ Len(files) + Len(subdirectories) = Len(added)
    /\ \A k \in 1..Len(added) :
          /\ Count(files, added[k]) = (IF added[k].isForFiles THEN 1 ELSE 0)
          /\ Count(subdirectories, added[k]) = (IF added[k].isForFiles THEN 0 ELSE 1)
    /\ PoolSorted(files)
    /\ PoolSorted(subdirectories)

\* Iteration yields each added handler once, those for files first
IterationComplete ==
    /\ Len(Iterate) = Len(added)
    /\ \A k \in 1..Len(added) : Count(Iterate, added[k]) = 1
    /\ \A i, j \in 1..Len(Iterate) : i < j => (Iterate[j].isForFiles => Iterate[i].isForFiles)

\* C24: after every step of a scanner, each added handler is in exactly one
\* pool, the file pool iff isForFiles() is true; each pool is in
\* non-decreasing order of rank with equal ranks in the order of the add
\* calls; iteration yields every file handler and then every directory
\* handler once; and no step of scan changes a pool.
C24_PoolsPartitionedAndSorted ==
    [][/\ PoolsPartitioned'
       /\ IterationComplete'
       /\ scannerPc # "add" => UNCHANGED <<files, subdirectories>>]_vars

\* A scan is over that called a handler; two file handlers of one rank and
\* a directory handler had been added, not in the order of iteration
C24_Witness ==
    /\ scannerPc = "done"
    /\ handlerCalls # <<>>
    /\ \E i, j \in 1..Len(files) : i < j /\ files[i].rank = files[j].rank
    /\ subdirectories # <<>>
    /\ Iterate # added

====
